---- MODULE Spec2Model ----
(***************************************************************************)
(* A model of the UCI front end of python_chess_interface                  *)
(* (src/src/chess_interface/main.py) together with the example search task *)
(* (src/example_engine.py).                                                *)
(*                                                                         *)
(* Text is modelled as a sequence of pieces.  A piece is a one-character   *)
(* string wherever the program looks at characters (command words, the     *)
(* blank that split(" ") cuts at, digits), and a longer string without     *)
(* blanks where the program only passes text on (a FEN field, a move).     *)
(***************************************************************************)
EXTENDS Integers, Sequences, FiniteSets, TLC

(***************************************************************************)
(* Bounds of the model.                                                    *)
(***************************************************************************)
MaxSearches == 2
MaxElapsed == 1

(***************************************************************************)
(* Python's str operations, as process_command uses them.                  *)
(***************************************************************************)
SP == " "

\* the control characters U+000B (vertical tab) and U+001C..U+001F (file,
\* group, record and unit separator), written as they are
VT == ""
FS == ""
GS == ""
RS == ""
US == ""

\* the ASCII characters str.isspace() holds of: what strip() and split()
\* treat as white space
WhiteSpace == {" ", "\t", "\n", "\r", "\f", VT, FS, GS, RS, US}

\* the white space int() skips around the number of an ASCII str: the
\* separators U+001C..U+001F are not among it
IntWhiteSpace == {" ", "\t", "\n", "\r", "\f", VT}

\* str.startswith(prefix)
StartsWith(s, p) ==
    /\ Len(s) >= Len(p)
    /\ SubSeq(s, 1, Len(p)) = p

\* str.split(" "): cut at every single blank, keeping empty tokens.
RECURSIVE SplitFrom(_, _, _)
SplitFrom(s, i, cur) ==
    IF i > Len(s) THEN <<cur>>
    ELSE IF s[i] = SP THEN <<cur>> \o SplitFrom(s, i + 1, <<>>)
    ELSE SplitFrom(s, i + 1, Append(cur, s[i]))

Split(s) == SplitFrom(s, 1, <<>>)

\* str.split(): cut at runs of white space, dropping empty tokens.
RECURSIVE SplitWSFrom(_, _, _)
SplitWSFrom(s, i, cur) ==
    IF i > Len(s) THEN (IF cur = <<>> THEN <<>> ELSE <<cur>>)
    ELSE IF s[i] \in WhiteSpace
    THEN (IF cur = <<>> THEN <<>> ELSE <<cur>>) \o SplitWSFrom(s, i + 1, <<>>)
    ELSE SplitWSFrom(s, i + 1, Append(cur, s[i]))

SplitWS(s) == SplitWSFrom(s, 1, <<>>)

\* str.strip(): white space removed at both ends
RECURSIVE LStrip(_)
LStrip(s) == IF s # <<>> /\ Head(s) \in WhiteSpace THEN LStrip(Tail(s)) ELSE s

RECURSIVE RStrip(_)
RStrip(s) ==
    IF s # <<>> /\ s[Len(s)] \in WhiteSpace THEN RStrip(SubSeq(s, 1, Len(s) - 1)) ELSE s

Strip(s) == RStrip(LStrip(s))

\* " ".join(tokens)
RECURSIVE Join(_)
Join(ts) ==
    IF Len(ts) = 0 THEN <<>>
    ELSE IF Len(ts) = 1 THEN ts[1]
    ELSE ts[1] \o <<SP>> \o Join(Tail(ts))

\* a Python slice xs[a:b] with 0-based bounds, clipped to the list
Slice(xs, a, b) ==
    LET hi == IF b < Len(xs) THEN b ELSE Len(xs)
    IN  IF a >= hi THEN <<>> ELSE SubSeq(xs, a + 1, hi)

Digits == {"0", "1", "2", "3", "4", "5", "6", "7", "8", "9"}

DigitVal(c) ==
    CASE c = "0" -> 0 [] c = "1" -> 1 [] c = "2" -> 2 [] c = "3" -> 3
      [] c = "4" -> 4 [] c = "5" -> 5 [] c = "6" -> 6 [] c = "7" -> 7
      [] c = "8" -> 8 [] c = "9" -> 9

\* int(str) raises ValueError on more than this many digits
\* (sys.int_info.default_max_str_digits)
IntMaxStrDigits == 4300

\* int(token) strips the white space around the token (split(" ") leaves
\* tabs and the like inside tokens) and succeeds on an optional sign followed
\* by a non-empty run of decimal digits, single underscores allowed between
\* digits, of at most IntMaxStrDigits digits.
RECURSIVE IntLStrip(_)
IntLStrip(s) == IF s # <<>> /\ Head(s) \in IntWhiteSpace THEN IntLStrip(Tail(s)) ELSE s

RECURSIVE IntRStrip(_)
IntRStrip(s) ==
    IF s # <<>> /\ s[Len(s)] \in IntWhiteSpace
    THEN IntRStrip(SubSeq(s, 1, Len(s) - 1)) ELSE s

IntStrip(s) == IntRStrip(IntLStrip(s))

Unsigned(t) ==
    LET u == IntStrip(t)
    IN  IF Len(u) > 0 /\ u[1] \in {"+", "-"} THEN Tail(u) ELSE u

IsInt(t) ==
    LET u == Unsigned(t)
    IN  /\ Len(u) > 0
        /\ \A i \in 1..Len(u) : u[i] \in Digits \cup {"_"}
        /\ u[1] # "_" /\ u[Len(u)] # "_"
        /\ \A i \in 1..(Len(u) - 1) : ~(u[i] = "_" /\ u[i + 1] = "_")
        /\ Len(SelectSeq(u, LAMBDA c : c \in Digits)) <= IntMaxStrDigits

RECURSIVE NatOf(_)
NatOf(t) ==
    IF Len(t) = 0 THEN 0
    ELSE IF t[Len(t)] = "_" THEN NatOf(SubSeq(t, 1, Len(t) - 1))
    ELSE 10 * NatOf(SubSeq(t, 1, Len(t) - 1)) + DigitVal(t[Len(t)])

IntOf(t) ==
    IF Len(IntStrip(t)) > 0 /\ IntStrip(t)[1] = "-" THEN 0 - NatOf(Unsigned(t))
    ELSE NatOf(Unsigned(t))

\* str(n) of a natural number
DigitChr(d) ==
    CASE d = 0 -> "0" [] d = 1 -> "1" [] d = 2 -> "2" [] d = 3 -> "3"
      [] d = 4 -> "4" [] d = 5 -> "5" [] d = 6 -> "6" [] d = 7 -> "7"
      [] d = 8 -> "8" [] d = 9 -> "9"

RECURSIVE StrOf(_)
StrOf(n) == IF n < 10 THEN <<DigitChr(n)>> ELSE StrOf(n \div 10) \o <<DigitChr(n % 10)>>

(***************************************************************************)
(* The rules library (python-chess), at the interface main.py and the      *)
(* example task use: chess.Board(fen), Board.set_fen, Move.from_uci,       *)
(* Board.push, Board.fen, Board.legal_moves.  Placements, castling rights  *)
(* and en-passant squares are pieces of text the model passes on; the      *)
(* library's answers are given for the positions of the opening            *)
(* 1. e4 e5, which is all the commands of the model play.                  *)
(***************************************************************************)
PL0 == "rnbqkbnr/pppppppp/8/8/8/8/PPPPPPPP/RNBQKBNR"
PL1 == "rnbqkbnr/pppppppp/8/8/4P3/8/PPPP1PPP/RNBQKBNR"
PL2 == "rnbqkbnr/pppp1ppp/8/4p3/4P3/8/PPPP1PPP/RNBQKBNR"

Placements == {PL0, PL1, PL2}
CastlingFields == {"KQkq", "-"}
EpFields == {"-", "e3", "e6"}

NoBoard == [ok |-> FALSE]

\* Board.set_fen(fen): the board, or NoBoard where the library raises ValueError
SetFen(fen) ==
    LET parts == SplitWS(fen)
        n == Len(parts)
        okPlacement == n >= 1 /\ Len(parts[1]) = 1 /\ parts[1][1] \in Placements
        okTurn == n < 2 \/ parts[2] \in {<<"w">>, <<"b">>}
        okCastling == n < 3 \/ (Len(parts[3]) = 1 /\ parts[3][1] \in CastlingFields)
        okEp == n < 4 \/ (Len(parts[4]) = 1 /\ parts[4][1] \in EpFields)
        okHalf == n < 5 \/ (IsInt(parts[5]) /\ IntOf(parts[5]) >= 0)
        okFull == n < 6 \/ (IsInt(parts[6]) /\ IntOf(parts[6]) >= 0)
    IN  IF n = 0 \/ n > 6 \/ ~okPlacement \/ ~okTurn \/ ~okCastling
           \/ ~okEp \/ ~okHalf \/ ~okFull
        THEN NoBoard
        ELSE [ok |-> TRUE,
              placement |-> parts[1][1],
              turn |-> IF n >= 2 THEN parts[2][1] ELSE "w",
              castling |-> IF n >= 3 THEN parts[3][1] ELSE "-",
              ep |-> IF n >= 4 THEN parts[4][1] ELSE "-",
              halfmove |-> IF n >= 5 THEN IntOf(parts[5]) ELSE 0,
              fullmove |-> IF n >= 6 /\ IntOf(parts[6]) > 0 THEN IntOf(parts[6]) ELSE 1]

\* chess.Board(): the starting position
StartBoard ==
    [ok |-> TRUE, placement |-> PL0, turn |-> "w", castling |-> "KQkq",
     ep |-> "-", halfmove |-> 0, fullmove |-> 1]

Files == {"a", "b", "c", "d", "e", "f", "g", "h"}
Ranks == {"1", "2", "3", "4", "5", "6", "7", "8"}

\* Move.from_uci(token) accepts "0000" and <from><to>[promotion]; it raises
\* InvalidMoveError on anything else.
ValidUci(t) ==
    \/ t = <<"0", "0", "0", "0">>
    \/ /\ Len(t) \in {4, 5}
       /\ t[1] \in Files /\ t[2] \in Ranks
       /\ t[3] \in Files /\ t[4] \in Ranks
       /\ <<t[1], t[2]>> # <<t[3], t[4]>>
       /\ Len(t) = 5 => t[5] \in {"q", "r", "b", "n"}

M_e2e4 == <<"e", "2", "e", "4">>
M_e7e5 == <<"e", "7", "e", "5">>
M_d2d4 == <<"d", "2", "d", "4">>
M_c7c5 == <<"c", "7", "c", "5">>
M_g1f3 == <<"g", "1", "f", "3">>

\* Board.push(move), for the two moves the commands of the model play
Push(b, m) ==
    CASE b.placement = PL0 /\ m = M_e2e4 ->
           [b EXCEPT !.placement = PL1, !.turn = "b", !.ep = "e3", !.halfmove = 0]
      [] b.placement = PL1 /\ b.turn = "b" /\ m = M_e7e5 ->
           [b EXCEPT !.placement = PL2, !.turn = "w", !.ep = "e6", !.halfmove = 0,
                     !.fullmove = b.fullmove + 1]

\* Board.has_legal_en_passant(): no pawn stands beside the double-stepped pawn
\* in any of these positions
HasLegalEnPassant(b) == FALSE

\* Board.fen(): the six fields joined by blanks, the en-passant square only
\* when an en-passant capture is legal
Fen(b) ==
    Join(<< <<b.placement>>, <<b.turn>>, <<b.castling>>,
            <<IF HasLegalEnPassant(b) THEN b.ep ELSE "-">>,
            StrOf(b.halfmove), StrOf(b.fullmove) >>)

\* list(board.legal_moves), as text: some of the legal moves of each position
LegalMoves(b) ==
    CASE b.placement = PL0 /\ b.turn = "w" -> {M_e2e4, M_d2d4}
      [] b.placement = PL1 /\ b.turn = "b" -> {M_e7e5, M_c7c5}
      [] b.placement = PL2 /\ b.turn = "w" -> {M_g1f3}
      [] OTHER -> {}

(***************************************************************************)
(* The words of the protocol, and the input lines the model feeds to       *)
(* process_command.                                                        *)
(***************************************************************************)
W_uci == <<"u", "c", "i">>
W_isready == <<"i", "s", "r", "e", "a", "d", "y">>
W_position == <<"p", "o", "s", "i", "t", "i", "o", "n">>
W_go == <<"g", "o">>
W_stop == <<"s", "t", "o", "p">>
W_ucinewgame == <<"u", "c", "i", "n", "e", "w", "g", "a", "m", "e">>
W_setoption == <<"s", "e", "t", "o", "p", "t", "i", "o", "n">>
W_quit == <<"q", "u", "i", "t">>
W_startpos == <<"s", "t", "a", "r", "t", "p", "o", "s">>
W_fen == <<"f", "e", "n">>
W_moves == <<"m", "o", "v", "e", "s">>
W_movetime == <<"m", "o", "v", "e", "t", "i", "m", "e">>
W_depth == <<"d", "e", "p", "t", "h">>
W_infinite == <<"i", "n", "f", "i", "n", "i", "t", "e">>
W_wtime == <<"w", "t", "i", "m", "e">>
W_bestmove == <<"b", "e", "s", "t", "m", "o", "v", "e">>
W_ponder == <<"p", "o", "n", "d", "e", "r">>
M_zz99 == <<"z", "z", "9", "9">>

\* the starting position with a tab, or a vertical tab, between its first two fields: five
\* tokens for split(" "), six fields for the rules library
FENTab == << <<PL0, "\t", "w">>, <<"KQkq">>, <<"-">>, <<"0">>, <<"1">> >>
FENVT == << <<PL0, VT, "w">>, <<"KQkq">>, <<"-">>, <<"0">>, <<"1">> >>

\* the six fields of the starting position, and a FEN one field short
FEN0 == << <<PL0>>, <<"w">>, <<"KQkq">>, <<"-">>, <<"0">>, <<"1">> >>
FEN5 == << <<PL0>>, <<"w">>, <<"KQkq">>, <<"-">>, <<"0">> >>

PositionLines ==
    { Join(<<W_position, W_startpos>>),
      Join(<<W_position, W_startpos, W_moves, M_e2e4, M_e7e5>>),
      Join(<<W_position, W_startpos, W_moves, M_zz99>>),
      Join(<<W_position, W_fen>> \o FEN0),
      Join(<<W_position, W_fen>> \o FEN0 \o <<W_moves, M_e2e4, M_e7e5>>),
      Join(<<W_position, W_fen>> \o FEN0 \o <<W_moves, M_zz99>>),
      Join(<<W_position, W_fen>> \o FEN5 \o <<W_moves, M_e2e4>>),
      Join(<<W_position, W_fen>> \o FENTab),
      Join(<<W_position, W_fen>> \o FENVT) }

GoLines ==
    { W_go,
      Join(<<W_go, W_movetime, <<"0">> >>),
      Join(<<W_go, W_movetime, <<"1">> >>),
      Join(<<W_go, W_infinite>>),
      Join(<<W_go, W_depth, <<"2">> >>),
      Join(<<W_go, W_wtime, <<"1", "0", "0">>, W_movetime, <<"1">> >>),
      Join(<<W_go, W_depth, <<"2">>, W_movetime, <<"1">> >>),
      Join(<<W_go, W_movetime, <<"\t", "1">> >>),
      Join(<<W_go, W_movetime, <<VT, "1">> >>),
      Join(<<W_go, W_movetime, <<FS, "1">> >>),
      Join(<<W_go, W_movetime>>),
      Join(<<W_go, W_depth, <<"x">> >>) }

OtherLines ==
    { W_uci, W_isready, W_stop, W_ucinewgame, W_quit,
      Join(<<W_setoption, <<"n", "a", "m", "e">>, <<"H", "a", "s", "h">>,
             <<"v", "a", "l", "u", "e">>, <<"1", "2", "8">> >>) }

\* lines that are none of the commands of the protocol surface
UnknownLines ==
    { <<>>,
      Join(<<W_uci, <<"x">> >>),
      W_stop \o <<"x">>,
      W_go \o <<"x">>,
      W_position,
      W_quit \o <<"x">> }

Lines == PositionLines \cup GoLines \cup OtherLines \cup UnknownLines

(***************************************************************************)
(* process_command: the if/elif chain, and the pure parts of its branches. *)
(***************************************************************************)
\* (faulty variant: uci is matched by its prefix, like the branches below it)
DispatchUciByPrefix(command) ==
    IF StartsWith(command, W_uci) THEN "uci"
    ELSE IF command = W_isready THEN "isready"
    ELSE IF StartsWith(command, W_position) THEN "position"
    ELSE IF StartsWith(command, W_go) THEN "go"
    ELSE IF StartsWith(command, W_stop) THEN "stop"
    ELSE IF StartsWith(command, W_ucinewgame) THEN "ucinewgame"
    ELSE IF StartsWith(command, W_setoption) THEN "setoption"
    ELSE IF StartsWith(command, W_quit) THEN "quit"
    ELSE "else"

\* which branch of process_command a line takes
Dispatch(command) ==
    IF command = W_uci THEN "uci"
    ELSE IF command = W_isready THEN "isready"
    ELSE IF StartsWith(command, W_position) THEN "position"
    ELSE IF StartsWith(command, W_go) THEN "go"
    ELSE IF StartsWith(command, W_stop) THEN "stop"
    ELSE IF StartsWith(command, W_ucinewgame) THEN "ucinewgame"
    ELSE IF StartsWith(command, W_setoption) THEN "setoption"
    ELSE IF StartsWith(command, W_quit) THEN "quit"
    ELSE "else"

\* chess.Board(fen): set_fen of the text (the starting FEN included)
BoardOf(fen) == SetFen(fen)

\* the for loop of the position branch from args[i] (1-based) on: the board
\* after the pushes, or NoBoard where Move.from_uci raises
RECURSIVE PushMoves(_, _, _)
PushMoves(b, args, i) ==
    IF i > Len(args) THEN b
    ELSE IF ~ValidUci(args[i]) THEN NoBoard
    ELSE PushMoves(Push(b, args[i]), args, i + 1)

\* the position branch: the value self.position is left with, and whether
\* the branch raised (args[k] of the code is args[k + 1] here)
PositionBranch(command) ==
    LET args == Split(command)
        base == IF Len(args) >= 2 /\ args[2] # W_startpos /\ args[2] = W_fen
                THEN Join(Slice(args, 2, 8))
                ELSE W_startpos
        board == BoardOf(base)
        after == IF Len(args) > 8 /\ args[9] = W_moves
                 THEN PushMoves(board, args, 10)
                 ELSE board
    IN  IF Len(args) < 2 THEN [position |-> W_startpos, raised |-> TRUE]
        ELSE IF ~board.ok THEN [position |-> base, raised |-> TRUE]
        ELSE IF ~after.ok THEN [position |-> base, raised |-> TRUE]
        ELSE [position |-> Fen(after), raised |-> FALSE]

InfiniteTime == 999999999

\* the argument loop of the go branch from args[i] (1-based) on
RECURSIVE GoArgsFrom(_, _, _)
GoArgsFrom(args, i, acc) ==
    IF i > Len(args) THEN acc
    ELSE IF args[i] = W_movetime THEN
        IF i + 1 > Len(args) \/ ~IsInt(args[i + 1]) THEN [acc EXCEPT !.raised = TRUE]
        ELSE GoArgsFrom(args, i + 1, [acc EXCEPT !.time_limit = IntOf(args[i + 1])])
    ELSE IF args[i] = W_depth THEN
        IF i + 1 > Len(args) \/ ~IsInt(args[i + 1]) THEN [acc EXCEPT !.raised = TRUE]
        ELSE GoArgsFrom(args, i + 1, [acc EXCEPT !.max_depth = IntOf(args[i + 1])])
    ELSE IF args[i] = W_infinite THEN
        GoArgsFrom(args, i + 1, [acc EXCEPT !.time_limit = InfiniteTime])
    ELSE GoArgsFrom(args, i + 1, acc)

\* (faulty variant: the loop stops one token short)
GoArgsLastSkipped(command) ==
    GoArgsFrom(SubSeq(Split(command), 1, Len(Split(command)) - 1), 2,
               [time_limit |-> 0, max_depth |-> 0, raised |-> FALSE])

GoArgs(command) ==
    GoArgsFrom(Split(command), 2, [time_limit |-> 0, max_depth |-> 0, raised |-> FALSE])

\* a result as the task puts it: a str, or a (move, ponder) pair
StrResult(m) == [kind |-> "str", move |-> m, ponder |-> <<>>]
NoResult == [kind |-> "none", move |-> <<>>, ponder |-> <<>>]

\* the lines the isinstance chain of stop and check_best_move sends
BestMoveLines(best_move, by) ==
    IF best_move.kind = "str"
    THEN << [text |-> W_bestmove \o <<SP>> \o best_move.move, by |-> by] >>
    ELSE IF best_move.kind = "pair"
    THEN << [text |-> W_bestmove \o <<SP>> \o best_move.move \o <<SP>>
                      \o W_ponder \o <<SP>> \o best_move.ponder, by |-> by] >>
    ELSE <<>>

\* the branch each line of the model takes (computed once)
BranchOf == [c \in Lines |-> Dispatch(c)]

\* the lines of the model by the branch they take
UciLines == {c \in Lines : BranchOf[c] = "uci"}
IsreadyLines == {c \in Lines : BranchOf[c] = "isready"}
PositionCmds == {c \in Lines : BranchOf[c] = "position"}
GoCmds == {c \in Lines : BranchOf[c] = "go"}
StopCmds == {c \in Lines : BranchOf[c] = "stop"}
UcinewgameCmds == {c \in Lines : BranchOf[c] = "ucinewgame"}
SetoptionCmds == {c \in Lines : BranchOf[c] = "setoption"}
QuitCmds == {c \in Lines : BranchOf[c] = "quit"}
ElseLines == {c \in Lines : BranchOf[c] = "else"}

\* process_command's pure branches on each line of the model, computed once
PositionOutcome == [c \in PositionCmds |-> PositionBranch(c)]
GoOutcome == [c \in GoCmds |-> GoArgs(c)]

\* every value self.position takes
PositionValues == {W_startpos} \cup {PositionOutcome[c].position : c \in PositionCmds}

(***************************************************************************)
(* The state: the fields of the UCI object, the command thread's place in  *)
(* process_command, the search threads, and what was written to stdout.    *)
(***************************************************************************)
VARIABLES
    position,     \* self.position
    move_thread,  \* self.move_thread: None, or the thread go created last
    send_queue,   \* self.send_queue: stop tokens, command thread -> task
    recv_queue,   \* self.recv_queue: results, task -> command thread
    best_move,    \* self.best_move, with the thread that put it
    pc,           \* where the command thread stands
    cmd,          \* process_command's argument while the command thread is inside it
    out,          \* the lines the last call sent to stdout
    last,         \* the last call (the branch of process_command, or "check"),
                  \* what it returned, whether it raised
    task,         \* the search threads, by number
    started,      \* how many threads go has started
    hist          \* of the search go started last (cur) and the one before it
                  \* (prev): how its thread left the loop, and who sent a
                  \* bestmove line with its result, in order

vars == <<position, move_thread, send_queue, recv_queue, best_move, pc, cmd,
          out, last, task, started, hist>>

None == 0
Threads == 1..MaxSearches

\* st: "none" (not started), "new", "loop", "broke" (the stop token taken and
\* the loop left, result not yet put), "exit" (result put, not yet returned),
\* "dead"
NoTask == [st |-> "none", position |-> <<>>, time_limit |-> 0, max_depth |-> 0,
           elapsed |-> 0]
DeadTask == [NoTask EXCEPT !.st = "dead"]
NoSearch == [end |-> "none", reports |-> <<>>]
NoItem == [res |-> NoResult, by |-> None]

\* (faulty variant: the thread counts as ended once it has put its result)
IsAliveUntilPut(t) == task[t].st \in {"new", "loop", "broke"}

\* Thread.is_alive()
IsAlive(t) == task[t].st \in {"new", "loop", "broke", "exit"}

\* (faulty variant: join does not wait)
JoinReturnsNoWait(t) == TRUE

\* Thread.join() returns once the thread has ended
JoinReturns(t) == ~IsAlive(t)

\* (faulty variant: the value is read but left on the queue)
AfterPeek(q) == q

\* q.get() on a queue that holds a value: the queue afterwards
AfterGet(q) == Tail(q)

\* while not q.empty(): q.get()
RECURSIVE Drained(_)
Drained(q) == IF q = <<>> THEN q ELSE Drained(Tail(q))

\* self.send for each of the lines, in order; who is "stop" or "check"
Send(lines, who) ==
    /\ out' = lines
    /\ hist' = [hist EXCEPT !.cur.reports =
                   @ \o [i \in 1..Len(SelectSeq(lines, LAMBDA l : l.by # None /\ l.by = started))
                        |-> who]]

\* the thread of the search go started last leaves its loop
Ended(t, end) ==
    hist' = IF t = started THEN [hist EXCEPT !.cur.end = end] ELSE hist

Returned(op, ret, raised) == [op |-> op, ret |-> ret, raised |-> raised]

Init ==
    /\ position = W_startpos
    /\ move_thread = None
    /\ send_queue = <<>>
    /\ recv_queue = <<>>
    /\ best_move = NoItem
    /\ pc = "idle"
    /\ cmd = <<>>
    /\ out = <<>>
    /\ last = Returned("init", "none", FALSE)
    /\ task = [t \in Threads |-> NoTask]
    /\ started = 0
    /\ hist = [cur |-> NoSearch, prev |-> NoSearch]

EngineName == <<"UCI Chess Engine">>
Author == <<"(UCI Implementation) Jacob MacMillan Software Inc.">>

Line(text) == [text |-> text, by |-> None]

(***************************************************************************)
(* process_command, branch by branch.                                      *)
(***************************************************************************)
IdName == Line(<<"i", "d", SP, "n", "a", "m", "e", SP>> \o EngineName)
IdAuthor == Line(<<"i", "d", SP, "a", "u", "t", "h", "o", "r", SP>> \o Author)
UciOk == Line(<<"u", "c", "i", "o", "k">>)
ReadyOk == Line(<<"r", "e", "a", "d", "y", "o", "k">>)

\* (faulty variant: uciok is sent before the identity)
UciReplyOkFirst == <<UciOk, IdName, IdAuthor>>

\* the three sends of the uci branch, in order
UciReply == <<IdName, IdAuthor, UciOk>>

ProcessUci(command) ==
    /\ pc = "idle" /\ BranchOf[command] = "uci"
    /\ cmd' = <<>>
    /\ Send(UciReply, "none")
    /\ last' = Returned("uci", "none", FALSE)
    /\ UNCHANGED <<position, move_thread, send_queue, recv_queue, best_move, pc,
                   task, started>>

ProcessIsready(command) ==
    /\ pc = "idle" /\ BranchOf[command] = "isready"
    /\ cmd' = <<>>
    /\ Send(<<ReadyOk>>, "none")
    /\ last' = Returned("isready", "none", FALSE)
    /\ UNCHANGED <<position, move_thread, send_queue, recv_queue, best_move, pc,
                   task, started>>

ProcessPosition(command) ==
    /\ pc = "idle" /\ BranchOf[command] = "position"
    /\ cmd' = <<>>
    /\ position' = PositionOutcome[command].position
    /\ Send(<<>>, "none")
    /\ last' = Returned("position", "none", PositionOutcome[command].raised)
    /\ UNCHANGED <<move_thread, send_queue, recv_queue, best_move, pc, task, started>>

\* (faulty variants: a draining loop is missing)
SendNotDrained(q) == q
RecvNotDrained(q) == q

\* the two draining loops of the go branch
DrainSend(q) == Drained(q)
DrainRecv(q) == Drained(q)

\* (faulty variant: the handle of the joined thread is kept)
KeptHandle(mt) == mt

\* self.move_thread = None after the join (None already where nothing was
\* registered)
ClearedHandle(mt) == None

\* the go branch after the join: drain both queues, parse the arguments,
\* start the thread
GoRest(command, sq) ==
    LET a == GoOutcome[command]
        tid == started + 1
    IN  /\ send_queue' = DrainSend(sq)
        /\ recv_queue' = DrainRecv(recv_queue)
        /\ cmd' = <<>>
        /\ pc' = "idle"
        /\ out' = <<>>
        /\ last' = Returned("go", "none", a.raised)
        /\ IF a.raised
           THEN /\ move_thread' = ClearedHandle(move_thread)
                /\ UNCHANGED <<task, started, hist>>
           ELSE /\ move_thread' = tid
                /\ started' = tid
                /\ hist' = [cur |-> NoSearch, prev |-> hist.cur]
                /\ task' = [task EXCEPT ![tid] =
                              [st |-> "new", position |-> position,
                               time_limit |-> a.time_limit, max_depth |-> a.max_depth,
                               elapsed |-> 0]]
        /\ UNCHANGED <<position, best_move>>

\* go with no thread registered: nothing to cancel
GoDirect(command) ==
    /\ pc = "idle" /\ BranchOf[command] = "go"
    /\ started < MaxSearches
    /\ move_thread = None
    /\ GoRest(command, send_queue)

\* go with a thread registered: put the stop token, then wait in join
GoCancel(command) ==
    /\ pc = "idle" /\ BranchOf[command] = "go"
    /\ started < MaxSearches
    /\ move_thread # None
    /\ send_queue' = Append(send_queue, "stop")
    /\ cmd' = command
    /\ pc' = "go_join"
    /\ Send(<<>>, "none")
    /\ last' = Returned("go", "none", FALSE)
    /\ UNCHANGED <<position, move_thread, recv_queue, best_move, task, started>>

GoJoin ==
    /\ pc = "go_join"
    /\ JoinReturns(move_thread)
    /\ GoRest(cmd, send_queue)

\* stop: put the token, then poll the result queue
StopPut(command) ==
    /\ pc = "idle" /\ BranchOf[command] = "stop"
    /\ send_queue' = Append(send_queue, "stop")
    /\ cmd' = command
    /\ pc' = "stop_wait"
    /\ Send(<<>>, "none")
    /\ last' = Returned("stop", "none", FALSE)
    /\ UNCHANGED <<position, move_thread, recv_queue, best_move, task, started>>

\* the polling loop ends once the result queue holds a value; take it
StopTake ==
    /\ pc = "stop_wait"
    /\ recv_queue # <<>>
    /\ best_move' = Head(recv_queue)
    /\ recv_queue' = AfterGet(recv_queue)
    /\ pc' = "stop_join"
    /\ UNCHANGED <<position, move_thread, send_queue, cmd, out, last, task, started,
                   hist>>

\* self.move_thread.join() (AttributeError on None), then the bestmove line
StopJoin ==
    /\ pc = "stop_join"
    /\ IF move_thread = None
       THEN /\ last' = Returned("stop", "none", TRUE)
            /\ UNCHANGED <<out, hist>>
       ELSE /\ JoinReturns(move_thread)
            /\ Send(BestMoveLines(best_move.res, best_move.by), "stop")
            /\ UNCHANGED last
    /\ pc' = "idle"
    /\ cmd' = <<>>
    /\ UNCHANGED <<position, move_thread, send_queue, recv_queue, best_move,
                   task, started>>

ProcessUcinewgame(command) ==
    /\ pc = "idle" /\ BranchOf[command] = "ucinewgame"
    /\ cmd' = <<>>
    /\ position' = W_startpos
    /\ Send(<<>>, "none")
    /\ last' = Returned("ucinewgame", "none", FALSE)
    /\ UNCHANGED <<move_thread, send_queue, recv_queue, best_move, pc, task, started>>

ProcessSetoption(command) ==
    /\ pc = "idle" /\ BranchOf[command] = "setoption"
    /\ cmd' = <<>>
    /\ Send(<<>>, "none")
    /\ last' = Returned("setoption", "none", FALSE)
    /\ UNCHANGED <<position, move_thread, send_queue, recv_queue, best_move, pc,
                   task, started>>

\* sys.exit(0) in the command thread
ProcessQuit(command) ==
    /\ pc = "idle" /\ BranchOf[command] = "quit"
    /\ cmd' = <<>>
    /\ pc' = "exited"
    /\ Send(<<>>, "none")
    /\ last' = Returned("quit", "none", FALSE)
    /\ UNCHANGED <<position, move_thread, send_queue, recv_queue, best_move,
                   task, started>>

ProcessElse(command) ==
    /\ pc = "idle" /\ BranchOf[command] = "else"
    /\ cmd' = <<>>
    /\ Send(<<>>, "none")
    /\ last' = Returned("else", "none", FALSE)
    /\ UNCHANGED <<position, move_thread, send_queue, recv_queue, best_move, pc,
                   task, started>>

(***************************************************************************)
(* check_best_move, called by the command thread between commands.         *)
(***************************************************************************)
CheckBestMove ==
    /\ pc = "idle"
    /\ IF move_thread # None /\ IsAlive(move_thread)
       THEN /\ Send(<<>>, "none")
            /\ last' = Returned("check", "false", FALSE)
            /\ UNCHANGED <<move_thread, recv_queue, best_move>>
       ELSE /\ move_thread' = None
            /\ IF recv_queue # <<>>
               THEN /\ best_move' = Head(recv_queue)
                    /\ recv_queue' = Tail(recv_queue)
                    /\ Send(BestMoveLines(Head(recv_queue).res, Head(recv_queue).by), "check")
                    /\ last' = Returned("check", "true", FALSE)
               ELSE /\ Send(<<>>, "none")
                    /\ last' = Returned("check", "false", FALSE)
                    /\ UNCHANGED <<recv_queue, best_move>>
    /\ UNCHANGED <<position, send_queue, pc, cmd, task, started>>

(***************************************************************************)
(* The search thread: move_search of the example engine.                   *)
(***************************************************************************)
\* board = chess.Board(); if position != "startpos": board.set_fen(position)
TaskBoard(pos) == IF pos = W_startpos THEN StartBoard ELSE SetFen(pos)

\* the task's board and legal moves for each position, computed once
TaskBoardOf == [p \in PositionValues |-> TaskBoard(p)]
TaskMovesOf == [p \in PositionValues |-> IF TaskBoard(p).ok THEN LegalMoves(TaskBoard(p)) ELSE {}]

\* (faulty variant: the thread looks at the object's position as it is now)
LivePosition(t) == position

\* the position argument of move_search: the str the thread was created with
TaskPosition(t) == task[t].position

\* the thread begins: parse the position (ValueError ends the thread), list
\* the legal moves, read the clock
TaskStart(t) ==
    /\ task[t].st = "new"
    /\ task' = [task EXCEPT ![t] =
                  IF TaskBoardOf[TaskPosition(t)].ok
                  THEN [@ EXCEPT !.st = "loop"]
                  ELSE DeadTask]
    /\ IF TaskBoardOf[TaskPosition(t)].ok THEN UNCHANGED hist ELSE Ended(t, "crashed")
    /\ UNCHANGED <<position, move_thread, send_queue, recv_queue, best_move, pc,
                   cmd, out, last, started>>

\* time passes while the task waits
Tick(t) ==
    /\ task[t].st = "loop"
    /\ task[t].elapsed < MaxElapsed
    /\ task[t].elapsed < task[t].time_limit
    /\ task' = [task EXCEPT ![t].elapsed = @ + 1]
    /\ UNCHANGED <<position, move_thread, send_queue, recv_queue, best_move, pc,
                   cmd, out, last, started, hist>>

\* (faulty variant: the result is put twice)
PutResultTwice(q, item) == Append(Append(q, item), item)

\* send_queue.put(str(move)): the task's result queue afterwards
PutResult(q, item) == Append(q, item)

\* random.choice(legal_moves) and send_queue.put(str(move)); IndexError on an
\* empty list ends the thread
TaskPut(t, end) ==
    LET moves == TaskMovesOf[TaskPosition(t)]
    IN  IF moves = {}
        THEN /\ task' = [task EXCEPT ![t] = DeadTask]
             /\ Ended(t, "crashed")
             /\ UNCHANGED recv_queue
        ELSE \E m \in moves :
               /\ recv_queue' = PutResult(recv_queue, [res |-> StrResult(m), by |-> t])
               /\ task' = [task EXCEPT ![t].st = "exit"]
               /\ Ended(t, end)

\* (faulty variant: the token is taken but not recognised)
NeverStop(msg) == FALSE

\* if command == "stop": break
IsStop(msg) == msg = "stop"

\* the time limit has passed: leave the loop and put the result (the test of
\* the clock touches nothing the threads share, so it is one step with the put)
TaskTimeUp(t) ==
    /\ task[t].st = "loop"
    /\ ~(task[t].elapsed < task[t].time_limit)
    /\ TaskPut(t, "timeup")
    /\ UNCHANGED <<position, move_thread, send_queue, best_move, pc, cmd, out, last,
                   started>>

\* one pass of the loop that finds a message: recv_queue.get() takes it, and
\* on "stop" the loop is left (the task is the one reader of this queue while
\* it lives, so empty() and get() are one step)
TaskPoll(t) ==
    /\ task[t].st = "loop"
    /\ task[t].elapsed < task[t].time_limit
    /\ send_queue # <<>>
    /\ send_queue' = Tail(send_queue)
    /\ task' = IF IsStop(Head(send_queue))
               THEN [task EXCEPT ![t].st = "broke"]
               ELSE task
    /\ UNCHANGED <<position, move_thread, recv_queue, best_move, pc, cmd, out, last,
                   started, hist>>

\* after the break: pick the move and put the result, a step of its own after
\* the one that took the token
TaskStopped(t) ==
    /\ task[t].st = "broke"
    /\ TaskPut(t, "stopped")
    /\ UNCHANGED <<position, move_thread, send_queue, best_move, pc, cmd, out, last,
                   started>>

\* move_search returns and the thread ends
TaskExit(t) ==
    /\ task[t].st = "exit"
    /\ task' = [task EXCEPT ![t] = DeadTask]
    /\ UNCHANGED <<position, move_thread, send_queue, recv_queue, best_move, pc,
                   cmd, out, last, started, hist>>

Next ==
    \/ \E command \in UciLines : ProcessUci(command)
    \/ \E command \in IsreadyLines : ProcessIsready(command)
    \/ \E command \in PositionCmds : ProcessPosition(command)
    \/ \E command \in GoCmds : GoDirect(command)
    \/ \E command \in GoCmds : GoCancel(command)
    \/ \E command \in StopCmds : StopPut(command)
    \/ \E command \in UcinewgameCmds : ProcessUcinewgame(command)
    \/ \E command \in SetoptionCmds : ProcessSetoption(command)
    \/ \E command \in QuitCmds : ProcessQuit(command)
    \/ \E command \in ElseLines : ProcessElse(command)
    \/ GoJoin
    \/ StopTake
    \/ StopJoin
    \/ CheckBestMove
    \/ \E t \in Threads :
         \/ TaskStart(t)
         \/ Tick(t)
         \/ TaskTimeUp(t)
         \/ TaskPoll(t)
         \/ TaskStopped(t)
         \/ TaskExit(t)

Spec == Init /\ [][Next]_vars

\* process_command(command), whichever branch it takes
Process(command) ==
    \/ ProcessUci(command)
    \/ ProcessIsready(command)
    \/ ProcessPosition(command)
    \/ GoDirect(command)
    \/ GoCancel(command)
    \/ StopPut(command)
    \/ ProcessUcinewgame(command)
    \/ ProcessSetoption(command)
    \/ ProcessQuit(command)
    \/ ProcessElse(command)

\* The threads are scheduled fairly: the search thread keeps running, and the
\* command thread, once inside join or the polling loop of stop, goes on as
\* soon as it can.  Nothing obliges the host to send a line.
Fairness ==
    /\ WF_vars(GoJoin)
    /\ WF_vars(StopTake)
    /\ WF_vars(StopJoin)
    /\ \A t \in Threads :
         /\ WF_vars(TaskStart(t))
         /\ WF_vars(Tick(t))
         /\ WF_vars(TaskTimeUp(t))
         /\ WF_vars(TaskPoll(t))
         /\ WF_vars(TaskStopped(t))
         /\ WF_vars(TaskExit(t))

FairSpec == Spec /\ Fairness

(***************************************************************************)
(* The loop of the example engine: read a line, strip it, process it, then *)
(* call check_best_move once; an exception of process_command ends the     *)
(* loop.                                                                   *)
(***************************************************************************)
\* the lines input() returns: those of the model, some with blanks around them
InputLines ==
    Lines \cup { <<SP>> \o W_go \o <<SP>>, W_uci \o <<SP>>, <<SP>> \o W_stop, <<SP, SP>>,
                 <<"\t">> \o W_isready \o <<"\r">>, <<VT>> \o W_isready \o <<US>> }

\* command = input().strip(), for each line (computed once)
StrippedOf == [l \in InputLines |-> Strip(l)]

\* the loop is inside interface.read(), waiting for a line: nothing was
\* called yet, or check_best_move was called last
AtRead == pc = "idle" /\ last.op \in {"init", "check"}

\* (faulty variant: check_best_move is also called while no line has come)
AtCheckOrRead == pc = "idle" /\ ~last.raised

\* read has returned without an exception: check_best_move is called next
AtCheck == pc = "idle" /\ last.op \notin {"init", "check"} /\ ~last.raised

\* UCI.read: one line of input, stripped, goes to process_command
Read(line) == AtRead /\ Process(StrippedOf[line])

\* interface.check_best_move() of the loop
DriverCheck == AtCheck /\ CheckBestMove

DriverNext ==
    \/ \E line \in InputLines : Read(line)
    \/ DriverCheck
    \/ GoJoin
    \/ StopTake
    \/ StopJoin
    \/ \E t \in Threads :
         \/ TaskStart(t)
         \/ Tick(t)
         \/ TaskTimeUp(t)
         \/ TaskPoll(t)
         \/ TaskStopped(t)
         \/ TaskExit(t)

DriverSpec == Init /\ [][DriverNext]_vars

\* threading.Thread(target=..., args=...) is created without daemon=True by
\* the (non-daemon) command thread
Daemon == FALSE

\* sys.exit(0) ends the command thread; the interpreter ends once no
\* non-daemon thread is left alive
ProcessEnded == pc = "exited" /\ (Daemon \/ \A t \in Threads : ~IsAlive(t))

(***************************************************************************)
(* Properties.                                                             *)
(***************************************************************************)
AliveThreads == {t \in Threads : IsAlive(t)}

\* C1: in every reachable state at most one search thread is alive; go
\* starts a thread only once the thread before it has ended.
C1_AtMostOneTaskAlive == Cardinality(AliveThreads) <= 1

\* a second search runs after go cancelled the first: the first thread left
\* its loop on a stop token and its result was never reported
C1_Witness ==
    /\ started = 2 /\ IsAlive(2)
    /\ hist.prev.end = "stopped" /\ hist.prev.reports = <<>>

\* the stop branch has returned without raising
StopReturned == pc = "idle" /\ last.op = "stop" /\ ~last.raised

\* C2: no search ever has more than one bestmove line, whoever sends it (stop
\* or check_best_move, before or after), and once stop has returned the
\* search it stopped has exactly one.
C2_ExactlyOneBestmove ==
    /\ Len(hist.cur.reports) <= 1
    /\ Len(hist.prev.reports) <= 1
    /\ StopReturned => (move_thread = started /\ Len(hist.cur.reports) = 1)

\* stop has reported a search whose task had already finished on its own
C2_Witness ==
    /\ StopReturned
    /\ hist.cur.end = "timeup"
    /\ hist.cur.reports = <<"stop">>

\* C3: once stop has reported a search, and until the next go starts one, the
\* result queue is empty and every check_best_move returns False and sends
\* nothing.
C3_NoSecondReport ==
    (hist.cur.reports # <<>> /\ Head(hist.cur.reports) = "stop") =>
        /\ recv_queue = <<>>
        /\ last.op = "check" => (last.ret = "false" /\ out = <<>>)

\* check_best_move has been called after stop reported the search
C3_Witness ==
    /\ last.op = "check" /\ last.ret = "false"
    /\ hist.cur.reports = <<"stop">>
    /\ move_thread = None

\* C4: every bestmove line sent carries the result of the search go started
\* last; the result of a search that a later go superseded is never sent.
C4_OnlyLatestSearchReported ==
    \A i \in 1..Len(out) : out[i].by \in {None, started}

\* the first search finished on its own and was never reported; go started a
\* second search, whose result has been reported
C4_Witness ==
    /\ started = 2
    /\ hist.prev.end = "timeup" /\ hist.prev.reports = <<>>
    /\ hist.cur.reports # <<>>

\* C5: whenever go starts a search thread, both queues are empty.
C5_QueuesEmptyAtStart ==
    [][started' # started => (send_queue' = <<>> /\ recv_queue' = <<>>)]_vars

\* go has just started a second search after stop reported a first one whose
\* task had finished on its own, so that the stop token was never taken
C5_Witness ==
    /\ started = 2 /\ task[2].st = "new"
    /\ hist.prev.end = "timeup" /\ hist.prev.reports = <<"stop">>
    /\ send_queue = <<>> /\ recv_queue = <<>>

\* the thread honours the task contract: it does not die before it has put
\* its result
HonoursContract(t) ==
    /\ hist.cur.end # "crashed"
    /\ task[t].st \in {"new", "loop", "broke"} =>
         (TaskBoardOf[task[t].position].ok /\ TaskMovesOf[task[t].position] # {})

\* stop has put its token for a registered search whose result nobody has
\* taken yet
StopPending ==
    /\ pc = "stop_wait"
    /\ move_thread # None
    /\ hist.cur.reports = <<>>
    /\ HonoursContract(move_thread)

\* stop has returned: the result is off the queue, the thread has ended, and
\* the one line sent is the bestmove of that search
StopDone ==
    /\ StopReturned
    /\ recv_queue = <<>>
    /\ ~IsAlive(move_thread)
    /\ Len(out) = 1 /\ out[1].by = move_thread
    /\ hist.cur.reports = <<"stop">>

\* C6: a stop processed for a search whose result has not been consumed, with
\* a task that honours its contract, terminates: it takes the result, joins
\* the thread and sends the bestmove line.
C6_StopTerminates == StopPending ~> StopDone

\* stop has returned after its token made the task leave the loop
C6_Witness == StopDone /\ hist.cur.end = "stopped"

\* the result queue holds a value and the registered thread, if any, has ended
ResultReady ==
    /\ recv_queue # <<>>
    /\ move_thread # None => task[move_thread].st \notin {"new", "loop", "broke", "exit"}

CheckReports ==
    /\ last'.ret = "true"
    /\ out' = BestMoveLines(Head(recv_queue).res, Head(recv_queue).by)
    /\ recv_queue' = Tail(recv_queue)
    /\ move_thread' = None

CheckReportsNothing ==
    /\ last'.ret = "false"
    /\ out' = <<>>
    /\ recv_queue' = recv_queue

\* C7 as claimed: check_best_move reports whenever a task is registered and
\* its result is on the queue, also while the thread has not yet ended.
C7_Original ==
    [][CheckBestMove =>
         IF move_thread # None /\ recv_queue # <<>>
         THEN CheckReports
         ELSE CheckReportsNothing]_vars

\* C7: check_best_move can always be called between commands and returns at
\* once; it reports (consumes the result, sends the bestmove line, clears
\* the handle, returns True) exactly when the result queue holds a value and
\* the registered thread has ended; otherwise, also between the task's put
\* and the end of its thread, it returns False, sends nothing and leaves the
\* result on the queue.
C7_ReportsOnceThreadEnded ==
    /\ [](pc = "idle" => ENABLED CheckBestMove)
    /\ [][CheckBestMove =>
            IF ResultReady THEN CheckReports ELSE CheckReportsNothing]_vars

\* check_best_move has reported a search that finished on its own
C7_Witness ==
    /\ last.op = "check" /\ last.ret = "true"
    /\ hist.cur.reports = <<"check">> /\ hist.cur.end = "timeup"
    /\ move_thread = None /\ Len(out) = 1

\* C8 as claimed: a position command that raises leaves self.position as it
\* was before the command.
C8_Original ==
    [][\A c \in PositionCmds :
         (ProcessPosition(c) /\ last'.raised) => position' = position]_vars

\* the tokens of a position line after the word "moves", wherever it stands
MovesOf(args) ==
    LET at == {i \in 1..Len(args) : args[i] = W_moves}
    IN  IF at = {} THEN <<>>
        ELSE SubSeq(args, (CHOOSE i \in at : \A j \in at : i <= j) + 1, Len(args))

\* the descriptor the rules library gives for the base of a position line
\* with the moves of the line applied to it
DirectDescriptor(c) ==
    LET args == Split(c)
        base == IF args[2] = W_startpos THEN StartBoard
                ELSE SetFen(Join(Slice(args, 2, 8)))
    IN  Fen(PushMoves(base, MovesOf(args), 1))

\* the position lines of the protocol with a base the library accepts and a
\* list of legal moves
LegalPositionLines ==
    { Join(<<W_position, W_startpos>>),
      Join(<<W_position, W_startpos, W_moves, M_e2e4, M_e7e5>>),
      Join(<<W_position, W_fen>> \o FEN0),
      Join(<<W_position, W_fen>> \o FEN0 \o <<W_moves, M_e2e4, M_e7e5>>) }

\* C9 as claimed: a position line with a legal move list stores the
\* descriptor of the base with the moves applied, for startpos and for fen.
C9_Original ==
    [][\A c \in LegalPositionLines :
         ProcessPosition(c) => position' = DirectDescriptor(c)]_vars

\* C10 as claimed: a line outside the protocol changes neither the position
\* nor the handle nor the queues, sends nothing and raises nothing.
C10_Original ==
    [][\A c \in UnknownLines :
         Process(c) =>
           /\ position' = position
           /\ move_thread' = move_thread
           /\ send_queue' = send_queue
           /\ recv_queue' = recv_queue
           /\ pc' = "idle"
           /\ out' = <<>>
           /\ ~last'.raised]_vars

\* the lines uci, isready and setoption name Hash value 128
FrameLines == {W_uci, W_isready} \cup {c \in OtherLines : StartsWith(c, W_setoption)}

\* C11: uci, isready and setoption change neither the position nor the handle
\* nor a queue nor a search thread, in every state; isready sends exactly
\* readyok, uci sends id name, id author and uciok in that order, setoption
\* sends nothing.
C11_ReplyWithoutStateChange ==
    [][\A c \in FrameLines :
         Process(c) =>
           /\ position' = position
           /\ move_thread' = move_thread
           /\ send_queue' = send_queue
           /\ recv_queue' = recv_queue
           /\ task' = task
           /\ pc' = "idle"
           /\ ~last'.raised
           /\ out' = IF c = W_uci
                     THEN << Line(<<"i", "d", SP, "n", "a", "m", "e", SP>> \o EngineName),
                             Line(<<"i", "d", SP, "a", "u", "t", "h", "o", "r", SP>> \o Author),
                             Line(<<"u", "c", "i", "o", "k">>) >>
                     ELSE IF c = W_isready
                     THEN << Line(<<"r", "e", "a", "d", "y", "o", "k">>) >>
                     ELSE <<>>]_vars

\* uci has answered while a search thread is in its loop
C11_Witness ==
    /\ last.op = "uci" /\ Len(out) = 3
    /\ move_thread # None /\ task[move_thread].st = "loop"
    /\ position # W_startpos

\* C12: ucinewgame sets the position to the starting position, leaves the
\* handle, the search threads and both queues as they are, and sends nothing.
C12_UcinewgameResetsPosition ==
    [][Process(W_ucinewgame) =>
         /\ TaskBoard(position') = StartBoard
         /\ move_thread' = move_thread
         /\ send_queue' = send_queue
         /\ recv_queue' = recv_queue
         /\ task' = task
         /\ pc' = "idle"
         /\ ~last'.raised
         /\ out' = <<>>]_vars

\* ucinewgame has reset the position while a thread is searching another one
C12_Witness ==
    /\ last.op = "ucinewgame" /\ position = W_startpos
    /\ move_thread # None /\ task[move_thread].st = "loop"
    /\ task[move_thread].position # W_startpos

\* C13 as claimed: quit puts no stop token, takes nothing from the result
\* queue, joins no thread, sends nothing, and the process is over at once,
\* whether or not a search thread is running.
C13_Original ==
    [][Process(W_quit) =>
         /\ send_queue' = send_queue
         /\ recv_queue' = recv_queue
         /\ task' = task
         /\ out' = <<>>
         /\ ProcessEnded']_vars

\* C14 as claimed: once stop has returned, the handle is cleared, as it is
\* after check_best_move has reported.
C14_Original == StopReturned => move_thread = None

\* C15 as claimed: the stored position, and so every position a search
\* thread is started with, is a descriptor the rules library accepts (the
\* literal startpos counted as the descriptor of the starting position, as
\* the search task reads it).
C15_Original ==
    /\ TaskBoardOf[position].ok
    /\ \A t \in Threads :
         task[t].st \in {"new", "loop", "broke", "exit"} =>
           TaskBoardOf[task[t].position].ok

\* the value that follows the last occurrence of a flag among the tokens of a
\* go line, 0 where the flag is absent
FlagValue(args, flag) ==
    LET at == {i \in 1..(Len(args) - 1) : args[i] = flag}
        i == CHOOSE k \in at : \A j \in at : j <= k
    IN  IF at = {} THEN 0
        ELSE IF IsInt(args[i + 1]) THEN IntOf(args[i + 1]) ELSE 0

\* the limits a go line asks for, read off its tokens
ClaimedLimits ==
    [c \in GoCmds |->
       LET args == Split(c)
       IN  [time_limit |-> IF \E i \in 1..Len(args) : args[i] = W_infinite
                           THEN 999999999
                           ELSE FlagValue(args, W_movetime),
            max_depth |-> FlagValue(args, W_depth)]]

\* C16: the limits a search thread is started with are those of the tokens
\* of the go line that starts it (movetime n, depth n, infinite as
\* 999999999, 0 for an absent flag, other sub-options ignored), whatever
\* searches came before.
C16_LimitsFromTokensOnly ==
    [][started' # started =>
         \A c \in GoCmds :
           (GoDirect(c) \/ (GoJoin /\ cmd = c)) =>
             /\ task'[started'].time_limit = ClaimedLimits[c].time_limit
             /\ task'[started'].max_depth = ClaimedLimits[c].max_depth]_vars

\* a second search runs without a time limit, after go cancelled a first one
C16_Witness ==
    /\ started = 2 /\ task[2].st = "loop"
    /\ task[2].time_limit = 999999999 /\ task[2].max_depth = 0
    /\ hist.prev.end = "stopped"

\* the last element of a non-empty queue
LastPut(q) == q[Len(q)]

\* C17: a search thread is started with the position stored at that moment;
\* a step that changes the stored position changes no thread (its position,
\* limits, liveness); and the move a thread puts is a legal move of the
\* position it was started with.
C17_TaskKeepsItsPosition ==
    /\ [][started' # started => task'[started'].position = position]_vars
    /\ [][position' # position => task' = task]_vars
    /\ [][\A t \in Threads :
            (task[t].st \in {"loop", "broke"} /\ task'[t].st = "exit") =>
              /\ LastPut(recv_queue').by = t
              /\ LastPut(recv_queue').res.move \in TaskMovesOf[task[t].position]]_vars

\* a thread started after 1. e4 e5 has put its move while the stored position
\* is back at startpos
C17_Witness ==
    /\ position = W_startpos
    /\ move_thread # None /\ task[move_thread].st = "exit"
    /\ task[move_thread].position # W_startpos
    /\ recv_queue # <<>> /\ LastPut(recv_queue).res.move = M_g1f3

\* no search thread is alive and the result queue is empty
NothingToStop == recv_queue = <<>> /\ \A t \in Threads : ~IsAlive(t)

\* the command thread is in the polling loop of stop with nothing to stop
StopStuck == pc = "stop_wait" /\ NothingToStop

\* C18: before any go, and once check_best_move or stop has reported the
\* search, no thread is alive and the result queue is empty; a stop processed
\* in such a state puts its token and enters the polling loop, and the
\* command thread stays there for ever: nothing is sent, nothing is taken, no
\* further command is processed.
C18_StopWithoutSearchHangs ==
    /\ []((pc = "idle" /\ (started = 0 \/ hist.cur.reports # <<>>)) => NothingToStop)
    /\ [][\A c \in StopCmds :
            (StopPut(c) /\ NothingToStop) =>
              (StopStuck' /\ send_queue' = Append(send_queue, "stop"))]_vars
    /\ [][StopStuck =>
            /\ StopStuck'
            /\ out' = <<>>
            /\ UNCHANGED <<position, move_thread, send_queue, best_move, last, hist>>]_vars

\* a second stop for a search that stop has already reported: the command
\* thread is in the polling loop, the thread has ended, the queue is empty
C18_Witness ==
    /\ StopStuck
    /\ hist.cur.reports = <<"stop">>
    /\ move_thread # None
    /\ Len(send_queue) >= 1

\* the go lines whose arguments fail to parse, read off their tokens: movetime
\* or depth as the last token, or followed by a token that is no integer
FailingGoLines ==
    {c \in GoCmds :
       LET args == Split(c)
       IN  \E i \in 2..Len(args) :
             /\ args[i] \in {W_movetime, W_depth}
             /\ (i = Len(args) \/ ~IsInt(args[i + 1]))}

\* no thread is alive, the result queue is empty and stop holds no result it
\* has yet to send
NoResultLeft == NothingToStop /\ pc # "stop_join"

\* C19: a go whose arguments fail to parse raises after the cancel, the join
\* and the drains and before a thread is started: afterwards the handle is
\* cleared, no thread is alive, both queues are empty, the position is as
\* before and nothing was sent; and from a state with no live thread and no
\* result left no bestmove line is sent until go starts a search.
C19_FailedGoLeavesNoTask ==
    /\ [][\A c \in FailingGoLines :
            (GoDirect(c) \/ (GoJoin /\ cmd = c)) =>
              /\ last'.raised
              /\ move_thread' = None
              /\ NoResultLeft'
              /\ send_queue' = <<>>
              /\ position' = position
              /\ started' = started
              /\ out' = <<>>
              /\ hist' = hist]_vars
    /\ [][NoResultLeft =>
            \/ started' # started
            \/ (NoResultLeft' /\ hist' = hist)]_vars

\* go depth x (or go movetime) has raised after cancelling a running search:
\* the thread left its loop on the stop token and its result was drained
C19_Witness ==
    /\ last.op = "go" /\ last.raised /\ pc = "idle"
    /\ started = 1 /\ hist.cur.end = "stopped" /\ hist.cur.reports = <<>>
    /\ move_thread = None /\ NothingToStop /\ send_queue = <<>>

\* C20 as claimed: in the loop of the example engine, check_best_move never
\* reports a search that ended on its time limit in the call that follows the
\* go line itself, that is, before a further line has been read.
C20_Original ==
    [][(DriverCheck /\ last'.ret = "true" /\ hist.cur.end = "timeup") =>
         last.op # "go"]_vars

\* C20: in the loop of the example engine no bestmove line is sent while the
\* loop waits for input: a step taken while it waits, other than reading a
\* line, sends nothing and takes nothing from the result queue, so a result
\* put while the loop waits stays unreported until a line has been read.
C20_NoReportWhileWaitingForInput ==
    [][AtRead =>
         /\ (hist'.cur.reports = hist.cur.reports \/ started' # started)
         /\ (last' = last =>
               (out' = out /\ best_move' = best_move
                /\ Len(recv_queue') >= Len(recv_queue)))]_vars

\* the loop waits for input after check_best_move found the thread alive;
\* the thread has since ended on its time limit and its result is on the queue
C20_Witness ==
    /\ AtRead /\ last.op = "check" /\ last.ret = "false"
    /\ hist.cur.end = "timeup" /\ hist.cur.reports = <<>>
    /\ recv_queue # <<>> /\ LastPut(recv_queue).by = started
    /\ \A t \in Threads : ~IsAlive(t)

====
